---- MODULE Spec2Model ----
(***************************************************************************)
(* A model of the autopilot control loop of raft-autopilot: the server     *)
(* categorizer, the dead-server pruner with its quorum adjudicator         *)
(* (reconcile.go) and the reconciler (promotions, demotions, leadership    *)
(* transfer), together with the value types they use (types.go).           *)
(*                                                                         *)
(* A ServerID is modelled by a natural number; the numeric order stands    *)
(* for the lexicographic order of the ID strings.  The code uses IDs only  *)
(* as map keys, so the initial configurations are enumerated up to a       *)
(* renaming of the IDs (see Init).                                         *)
(***************************************************************************)
EXTENDS Integers, Sequences, FiniteSets, TLC

\* ------------------------------------------------------------------ bounds
NumServers == 4
MaxMinQuorum == 4
\* the server IDs a reconcile pass deals with
NumStateServers == 2
\* the width of the unsigned integers of the health check (uint64 in the code)
IndexBits == 3
\* the largest Raft term and the largest duration of the health check
MaxTerm == 2
MaxContact == 2
\* the latest instant and the longest duration of the stability checks
MaxTime == 3

Ids == 1..NumServers

StateIds == 1..NumStateServers

\* ------------------------------------------------------------------ types
NodeUnknown == "unknown"
NodeAlive == "alive"
NodeFailed == "failed"
NodeLeft == "left"
NodeVoter == "voter"
\* a NodeType other than NodeVoter (the promoter may define its own)
NodeOther == "other"

\* raft.ServerSuffrage
Voter == "Voter"
Nonvoter == "Nonvoter"
Staging == "Staging"

\* a missing entry of cfg.Servers
Nil == "nil"

\* a nil *Config
NilConfig == [nil |-> TRUE]

\* a missing entry of KnownServers()
NoServer == [nil |-> TRUE]

\* a nil *VoterEligibility
NilEligibility == [nil |-> TRUE]

Suffrages == {Voter, Nonvoter, Staging}
NodeStatuses == {NodeUnknown, NodeAlive, NodeFailed, NodeLeft}
NodeTypes == {NodeVoter, NodeOther}

\* the part of Server the pruner reads
Servers == [NodeStatus : NodeStatuses, NodeType : NodeTypes]

BucketNames ==
    {"StaleNonVoters", "StaleVoters", "FailedNonVoters", "FailedVoters",
     "HealthyNonVoters", "HealthyVoters"}

\* RaftState
RaftNone == "none"
RaftLeader == "leader"
RaftVoter == "voter"
RaftNonVoter == "non-voter"
RaftStaging == "staging"

RaftStates == {RaftNone, RaftLeader, RaftVoter, RaftNonVoter, RaftStaging}

\* the part of ServerState the reconciler reads: State and Health.Healthy
ServerStates == [State : RaftStates, Healthy : BOOLEAN]

\* a missing entry of state.Servers
NoServerState == [nil |-> TRUE]

\* Server.Address of the server with that ID, as state.Servers records it: a
\* ServerAddress is modelled by a number that is no ServerID
AddressOf(id) == NumStateServers + id

\* a ServerState with the Server.Address it records
WithAddress(srv, id) ==
    IF srv = NoServerState THEN NoServerState
    ELSE [State |-> srv.State, Healthy |-> srv.Healthy, Address |-> AddressOf(id)]

\* a nil *State
NilState == [nil |-> TRUE]

\* the empty ServerID
NoId == 0

\* the RaftChanges of a pass that has not asked the promoter
NoChanges == [Promotions |-> <<>>, Demotions |-> <<>>, Leader |-> NoId]

\* the part of Config the pruner reads
Configs == [CleanupDeadServers : BOOLEAN, MinQuorum : 0..MaxMinQuorum]

VARIABLES
    raftServers,    \* cfg.Servers of the consensus layer: ID -> suffrage, or Nil
    knownServers,   \* delegate.KnownServers(): ID -> Server, or NoServer
    enabled,        \* a.ReconciliationEnabled() as read by the pass
    conf,           \* delegate.AutopilotConfig() as read by the pass, or NilConfig
    servers,        \* the CategorizedServers of the pass: bucket name -> (ID -> VoterEligibility)
    pc,             \* the position of the pass
    phase,          \* the bucket the pruner is working on
    pending,        \* the keys the running range loop has not visited yet
    failureTolerance, \* adjudicateRemoval's local variable
    startVoters,    \* voterCountProvider() as read at the start of adjudicateRemoval
    ids,            \* adjudicateRemoval's result under construction
    toRemove,       \* the rest of the list the removal loop walks
    calls,          \* the calls made to the consensus adapter and the embedder, in order
    result,         \* the error the pass returned: "none" while running, "nil" or "error"
    state,          \* a.GetState() as reconcile sees it: a State, or NilState
    changes,        \* the RaftChanges the promoter returned, once it was asked
    todo,           \* the rest of the list applyPromotions / applyDemotions walks
    applied,        \* their local variable promoted / demoted
    done,           \* reconcile's local: the bool they returned last
    asked,          \* the methods of the promoter the pass has called
    healthInput,    \* the receiver and the arguments of a call of isHealthy
    healthy,        \* what that call returned, "none" before it has
    timeInput,      \* the clock, the receivers and the arguments of the stability checks
    stabilization,  \* what State.ServerStabilizationTime returned, "none" before it has
    stable          \* what ServerHealth.IsStable returned, "none" before it has

vars ==
    <<raftServers, knownServers, enabled, conf, servers, pc, phase, pending,
      failureTolerance, startVoters, ids, toRemove, calls, result,
      state, changes, todo, applied, done, asked, healthInput, healthy,
      timeInput, stabilization, stable>>

\* what only pruneDeadServers reads and writes, and what only reconcile does
pruneVars ==
    <<raftServers, knownServers, servers, phase, pending, failureTolerance,
      startVoters, ids, toRemove>>

reconcileVars == <<state, changes, todo, applied, done>>

\* what only the checks of types.go read and write
healthVars == <<healthInput, healthy, timeInput, stabilization, stable>>

\* ---------------------------------------------------------------- helpers
Restrict(f, S) == [x \in S |-> f[x]]

Range(s) == {s[i] : i \in DOMAIN s}

EmptyBucket == [x \in {} |-> NilEligibility]

VoterEligibility(current, potential) ==
    [currentVoter |-> current, potentialVoter |-> potential]

IsCurrentVoter(v) == v.currentVoter

IsPotentialVoter(v) == v.potentialVoter

\* SetPotentialVoter(true) whatever the NodeType
SetPotentialVoterAlways(v, isVoter) == [v EXCEPT !.potentialVoter = TRUE]

SetPotentialVoter(v, isVoter) == [v EXCEPT !.potentialVoter = isVoter]

\* RaftServerEligibility.FilterVoters
FilterVoters(s, isCurrentVoter) ==
    Restrict(s, {id \in DOMAIN s : IsCurrentVoter(s[id]) = isCurrentVoter})

\* ------------------------------------------------------------ categorizer
\* getRaftServerIds: one fresh VoterEligibility per server of the configuration
getRaftServerIds(cfg) ==
    [id \in {i \in DOMAIN cfg : cfg[i] # Nil} |->
        VoterEligibility(cfg[id] = Voter, FALSE)]

\* categorizeServers without its delete(raftServers, id)
KeepMatched(raft, matched) == raft

\* the working map after the loop's delete(raftServers, id) of every matched ID
DeleteMatched(raft, matched) == Restrict(raft, DOMAIN raft \ matched)

\* categorizeServers: the six buckets from the configuration and the embedder's view
categorizeServers(cfg, known) ==
    LET raft == getRaftServerIds(cfg)
        matched == {id \in DOMAIN raft : known[id] # NoServer}
        alive(id) == known[id].NodeStatus = NodeAlive
        v(id) == SetPotentialVoter(raft[id], known[id].NodeType = NodeVoter)
        rest == DeleteMatched(raft, matched)
    IN  [StaleNonVoters |-> FilterVoters(rest, FALSE),
         StaleVoters |-> FilterVoters(rest, TRUE),
         FailedNonVoters |->
            [id \in {i \in matched : ~alive(i) /\ ~IsCurrentVoter(raft[i])} |-> v(id)],
         FailedVoters |->
            [id \in {i \in matched : ~alive(i) /\ IsCurrentVoter(raft[i])} |-> v(id)],
         HealthyNonVoters |->
            [id \in {i \in matched : alive(i) /\ ~IsCurrentVoter(raft[i])} |-> v(id)],
         HealthyVoters |->
            [id \in {i \in matched : alive(i) /\ IsCurrentVoter(raft[i])} |-> v(id)]]

\* the number of entries of a bucket that are potential voters
CountPotential(b) == Cardinality({id \in DOMAIN b : IsPotentialVoter(b[id])})

\* a count taken over the healthy buckets only
PotentialVotersHealthy(s) ==
    CountPotential(s.HealthyNonVoters) + CountPotential(s.HealthyVoters)

\* CategorizedServers.PotentialVoters
PotentialVoters(s) ==
    CountPotential(s.FailedNonVoters) + CountPotential(s.FailedVoters)
        + CountPotential(s.HealthyNonVoters) + CountPotential(s.HealthyVoters)

\* Go's integer division truncates toward zero
getFailureTolerance(nodes) ==
    IF nodes - 1 >= 0 THEN (nodes - 1) \div 2 ELSE -((1 - nodes) \div 2)

\* the check without the server that is about to go
isRemovalQuorateBefore(voters, minQuorum) == voters >= minQuorum

isRemovalQuorate(voters, minQuorum) == voters - 1 >= minQuorum

\* ---------------------------------------------------------- policy filter
\* CategorizedServers.convertToFailedServers: the DTO handed to the promoter.
\* A failed server is listed only when state.Servers tracks it.
convertToFailedServers(s, stateIds) ==
    [StaleNonVoters |-> DOMAIN s.StaleNonVoters,
     StaleVoters |-> DOMAIN s.StaleVoters,
     FailedNonVoters |-> DOMAIN s.FailedNonVoters \cap stateIds,
     FailedVoters |-> DOMAIN s.FailedVoters \cap stateIds]

\* what Promoter.FilterFailedServerRemovals may return for a DTO: the entries
\* it keeps, with the voter and non-voter lists exchanged when it moves IDs
\* from one class to another, and with the IDs it adds of its own to every list
FilterFailedServerRemovals(dto, keep, move, extra) ==
    IF move
    THEN [StaleNonVoters |-> (dto.StaleVoters \cap keep) \cup extra,
          StaleVoters |-> (dto.StaleNonVoters \cap keep) \cup extra,
          FailedNonVoters |-> (dto.FailedVoters \cap keep) \cup extra,
          FailedVoters |-> (dto.FailedNonVoters \cap keep) \cup extra]
    ELSE [StaleNonVoters |-> (dto.StaleNonVoters \cap keep) \cup extra,
          StaleVoters |-> (dto.StaleVoters \cap keep) \cup extra,
          FailedNonVoters |-> (dto.FailedNonVoters \cap keep) \cup extra,
          FailedVoters |-> (dto.FailedVoters \cap keep) \cup extra]

\* convertFromFailedServers without its found checks: every listed ID gets an
\* entry, a fresh one when the bucket has none
RetainListed(bucket, list) ==
    [id \in list |->
        IF id \in DOMAIN bucket THEN bucket[id] ELSE VoterEligibility(FALSE, FALSE)]

\* the entries of a bucket that the filtered list still names
Retain(bucket, list) == Restrict(bucket, DOMAIN bucket \cap list)

\* CategorizedServers.convertFromFailedServers
convertFromFailedServers(s, failedServers) ==
    [s EXCEPT !.StaleNonVoters = Retain(s.StaleNonVoters, failedServers.StaleNonVoters),
              !.StaleVoters = Retain(s.StaleVoters, failedServers.StaleVoters),
              !.FailedNonVoters = Retain(s.FailedNonVoters, failedServers.FailedNonVoters),
              !.FailedVoters = Retain(s.FailedVoters, failedServers.FailedVoters)]

\* ------------------------------------------------------------ adjudicator
\* adjudicateRemoval without its failureTolerance-- for a current voter
AdjudicateNoDecrement(tolerance, v, voters, minQuorum) ==
    IF tolerance < 1 THEN "refuse"
    ELSE IF v # NilEligibility /\ IsPotentialVoter(v) /\ ~isRemovalQuorate(voters, minQuorum)
         THEN "refuse"
    ELSE "accept"

\* the decision adjudicateRemoval takes for one candidate of the bucket
Adjudicate(tolerance, v, voters, minQuorum) ==
    IF tolerance < 1 THEN "refuse"
    ELSE IF v # NilEligibility /\ IsPotentialVoter(v) /\ ~isRemovalQuorate(voters, minQuorum)
         THEN "refuse"
    ELSE IF v # NilEligibility /\ IsCurrentVoter(v) THEN "acceptVoter"
    ELSE "accept"

\* the order in which pruneDeadServers works through the buckets
NextPhase(p) ==
    CASE p = "StaleNonVoters" -> "StaleVoters"
      [] p = "StaleVoters" -> "FailedNonVoters"
      [] p = "FailedNonVoters" -> "FailedVoters"
      [] OTHER -> "end"

\* every removal sent to the consensus adapter
RemovalCallRaftOnly(p) == "removeServer"

\* the call that removes a server of a bucket
RemovalCall(p) ==
    IF p \in {"StaleNonVoters", "StaleVoters"} THEN "removeServer" ELSE "RemoveFailedServer"

Call(op, id, ok) == [op |-> op, id |-> id, ok |-> ok]

\* a call that names a server by its ID and its address
CallAt(op, id, address, ok) == [op |-> op, id |-> id, address |-> address, ok |-> ok]

\* ----------------------------------------------------------------- pruner
\* the guard of pruneDeadServers without its check of CleanupDeadServers
CleanupUnchecked(c) == c # NilConfig

\* conf == nil || !conf.CleanupDeadServers, negated
CleanupWanted(c) == c # NilConfig /\ c.CleanupDeadServers

\* the range over servers.StaleNonVoters made to stop at a failure tolerance of 0
StaleNonVoterCandidatesAdjudicated(s) ==
    IF getFailureTolerance(PotentialVoters(s)) < 1 THEN {} ELSE DOMAIN s.StaleNonVoters

\* the IDs the range over servers.StaleNonVoters visits
StaleNonVoterCandidates(s) == DOMAIN s.StaleNonVoters

\* removeServer's error dropped
RemoveServerErrorIgnored(ok) == "none"

\* what the pass returns right after a removeServer call: its error, or
\* nothing yet ("none") and the loop goes on
RemoveServerReturns(ok) == IF ok THEN "none" ELSE "error"

\* pruneDeadServers, its guards
PruneBegin ==
    /\ pc = "start"
    /\ \E en \in BOOLEAN :
        /\ enabled' = en
        /\ IF ~en
           THEN /\ conf' = conf
                /\ pc' = "done"
                /\ result' = "nil"
           ELSE \E c \in Configs \cup {NilConfig} :
                /\ conf' = c
                /\ IF ~CleanupWanted(c)
                   THEN pc' = "done" /\ result' = "nil"
                   ELSE pc' = "categorize" /\ result' = result
    /\ UNCHANGED <<raftServers, knownServers, servers, phase, pending,
                   failureTolerance, startVoters, ids, toRemove, calls>>
    /\ UNCHANGED <<asked, reconcileVars, healthVars>>

\* servers, err := a.categorizeServers()
CategorizeServers ==
    /\ pc = "categorize"
    /\ \E err \in BOOLEAN :
        IF err
        THEN /\ pc' = "done"
             /\ result' = "error"
             /\ servers' = servers
        ELSE /\ pc' = "filter"
             /\ result' = result
             /\ servers' = categorizeServers(raftServers, knownServers)
    /\ UNCHANGED <<raftServers, knownServers, enabled, conf, phase, pending,
                   failureTolerance, startVoters, ids, toRemove, calls>>
    /\ UNCHANGED <<asked, reconcileVars, healthVars>>

\* the promoter's veto, then the range over servers.StaleNonVoters begins
FilterServers ==
    /\ pc = "filter"
    /\ \E stateIds \in SUBSET (DOMAIN servers.FailedNonVoters \cup DOMAIN servers.FailedVoters) :
        LET dto == convertToFailedServers(servers, stateIds)
            listed == dto.StaleNonVoters \cup dto.StaleVoters
                        \cup dto.FailedNonVoters \cup dto.FailedVoters
        IN  \E keep \in SUBSET listed, move \in BOOLEAN,
                   extra \in {{}} \cup {{id} : id \in Ids} :
                servers' = convertFromFailedServers(servers,
                                FilterFailedServerRemovals(dto, keep, move, extra))
    /\ asked' = asked \cup {"FilterFailedServerRemovals"}
    /\ phase' = "StaleNonVoters"
    /\ pending' = StaleNonVoterCandidates(servers')
    /\ pc' = "removeStaleNonVoters"
    /\ UNCHANGED <<raftServers, knownServers, enabled, conf, failureTolerance,
                   startVoters, ids, toRemove, calls, result>>
    /\ UNCHANGED <<reconcileVars, healthVars>>

\* the pass moves on to bucket p: adjudicateRemoval is called on it and reads
\* the potential-voter count, or the pass ends
EnterPhase(p) ==
    /\ phase' = p
    /\ toRemove' = <<>>
    /\ ids' = <<>>
    /\ IF p = "end"
       THEN /\ pc' = "done"
            /\ result' = "nil"
            /\ pending' = {}
            /\ UNCHANGED <<failureTolerance, startVoters>>
       ELSE /\ pc' = "adjudicating"
            /\ result' = result
            /\ pending' = DOMAIN servers[p]
            /\ startVoters' = PotentialVoters(servers)
            /\ failureTolerance' = getFailureTolerance(PotentialVoters(servers))

\* one iteration of the range over servers.StaleNonVoters
RemoveStaleNonVoter ==
    /\ pc = "removeStaleNonVoters"
    /\ pending # {}
    /\ \E id \in pending, ok \in BOOLEAN :
        /\ calls' = Append(calls, Call(RemovalCall(phase), id, ok))
        /\ pending' = pending \ {id}
        /\ result' = RemoveServerReturns(ok)
        /\ pc' = IF result' = "none" THEN pc ELSE "done"
    /\ UNCHANGED <<raftServers, knownServers, enabled, conf, servers, phase,
                   failureTolerance, startVoters, ids, toRemove>>
    /\ UNCHANGED <<asked, reconcileVars, healthVars>>

\* the range over servers.StaleNonVoters is over
StaleNonVotersDone ==
    /\ pc = "removeStaleNonVoters"
    /\ pending = {}
    /\ EnterPhase(NextPhase(phase))
    /\ UNCHANGED <<raftServers, knownServers, enabled, conf, servers, calls>>
    /\ UNCHANGED <<asked, reconcileVars, healthVars>>

\* one iteration of adjudicateRemoval's range over the bucket
AdjudicateStep ==
    /\ pc = "adjudicating"
    /\ pending # {}
    /\ \E id \in pending :
        LET v == servers[phase][id]
            d == Adjudicate(failureTolerance, v, PotentialVoters(servers), conf.MinQuorum)
        IN  /\ pending' = pending \ {id}
            /\ failureTolerance' =
                    IF d = "acceptVoter" THEN failureTolerance - 1 ELSE failureTolerance
            /\ IF d = "refuse"
               THEN UNCHANGED <<servers, ids>>
               ELSE /\ servers' = [servers EXCEPT
                            ![phase] = Restrict(@, DOMAIN @ \ {id})]
                    /\ ids' = Append(ids, id)
    /\ UNCHANGED <<raftServers, knownServers, enabled, conf, pc, phase,
                   startVoters, toRemove, calls, result>>
    /\ UNCHANGED <<asked, reconcileVars, healthVars>>

\* adjudicateRemoval returns ids
AdjudicateReturn ==
    /\ pc = "adjudicating"
    /\ pending = {}
    /\ toRemove' = ids
    /\ pc' = "removing"
    /\ UNCHANGED <<raftServers, knownServers, enabled, conf, servers, phase, pending,
                   failureTolerance, startVoters, ids, calls, result>>
    /\ UNCHANGED <<asked, reconcileVars, healthVars>>

\* one iteration of the loop over toRemove: a stale voter goes through the
\* consensus adapter, a failed server through the embedder when the embedder
\* still knows it
RemoveNext ==
    /\ pc = "removing"
    /\ toRemove # <<>>
    /\ LET id == Head(toRemove)
       IN  IF RemovalCall(phase) = "removeServer"
           THEN \E ok \in BOOLEAN :
                /\ calls' = Append(calls, Call("removeServer", id, ok))
                /\ result' = RemoveServerReturns(ok)
                /\ pc' = IF result' = "none" THEN pc ELSE "done"
           ELSE \E found \in BOOLEAN :
                /\ calls' = IF found
                            THEN Append(calls, Call("RemoveFailedServer", id, TRUE))
                            ELSE calls
                /\ pc' = pc
                /\ result' = result
    /\ toRemove' = Tail(toRemove)
    /\ UNCHANGED <<raftServers, knownServers, enabled, conf, servers, phase, pending,
                   failureTolerance, startVoters, ids>>
    /\ UNCHANGED <<asked, reconcileVars, healthVars>>

\* the loop over toRemove is over
RemoveDone ==
    /\ pc = "removing"
    /\ toRemove = <<>>
    /\ EnterPhase(NextPhase(phase))
    /\ UNCHANGED <<raftServers, knownServers, enabled, conf, servers, calls>>
    /\ UNCHANGED <<asked, reconcileVars, healthVars>>

\* -------------------------------------------------------------- reconciler
\* ServerState.HasVotingRights
HasVotingRights(srv) == srv.State = RaftVoter \/ srv.State = RaftLeader

\* applyPromotions without its health check
PromotableUnhealthy(srv) ==
    /\ srv # NoServerState
    /\ ~HasVotingRights(srv)

\* applyPromotions, one ID of the change-set: whether add-voter is called for it
Promotable(srv) ==
    /\ srv # NoServerState
    /\ ~HasVotingRights(srv)
    /\ srv.Healthy

\* applyDemotions without its check of the role
DemotableNonVoter(srv) == srv # NoServerState

\* applyDemotions, one ID of the change-set: whether demote-voter is called for it
Demotable(srv) ==
    /\ srv # NoServerState
    /\ srv.State # RaftNonVoter

\* return promoted, err instead of return true, err
AppliedAnyDespiteError(promoted, failed) == promoted

\* the bool applyPromotions and applyDemotions return: true with an adapter
\* error, else whether a call was applied
AppliedAny(promoted, failed) == IF failed THEN TRUE ELSE promoted

\* reconcile hands the Config to the promoter and reads none of its fields
ReconcileConfigs == {NilConfig, [CleanupDeadServers |-> FALSE, MinQuorum |-> 0]}

\* the sequences without repetition of IDs of S
RECURSIVE Arrangements(_)
Arrangements(S) ==
    {<<>>} \cup UNION {{<<x>> \o a : a \in Arrangements(S \ {x})} : x \in S}

IdLists == Arrangements(StateIds)

\* what Promoter.CalculatePromotionsAndDemotions may return
RaftChanges ==
    [Promotions : IdLists, Demotions : IdLists, Leader : StateIds \cup {NoId}]

\* reconcile's check of the state without its check of the leader
ValidStateNoLeader(st) == st # NilState

\* state == nil || state.Leader == "", negated
ValidState(st) == ~(st = NilState \/ st.Leader = NoId)

\* reconcile, its guards
ReconcileBegin ==
    /\ pc = "reconcile"
    /\ \E en \in BOOLEAN :
        /\ enabled' = en
        /\ IF ~en
           THEN /\ conf' = conf
                /\ pc' = "done"
                /\ result' = "nil"
           ELSE \E c \in ReconcileConfigs :
                /\ conf' = c
                /\ IF c = NilConfig
                   THEN pc' = "done" /\ result' = "nil"
                   ELSE pc' = "getState" /\ result' = result
    /\ UNCHANGED <<calls, asked, reconcileVars, pruneVars, healthVars>>

\* state := a.GetState() and the check that it has a leader
GetState ==
    /\ pc = "getState"
    /\ IF ~ValidState(state)
       THEN pc' = "done" /\ result' = "error"
       ELSE pc' = "calculate" /\ result' = result
    /\ UNCHANGED <<enabled, conf, calls, asked, reconcileVars, pruneVars, healthVars>>

\* changes := a.promoter.CalculatePromotionsAndDemotions(conf, state), and
\* applyPromotions is entered
CalculatePromotionsAndDemotions ==
    /\ pc = "calculate"
    /\ \E c \in RaftChanges :
        /\ changes' = c
        /\ todo' = c.Promotions
    /\ applied' = FALSE
    /\ asked' = asked \cup {"CalculatePromotionsAndDemotions"}
    /\ pc' = "promotions"
    /\ UNCHANGED <<enabled, conf, calls, result, state, done, pruneVars, healthVars>>

\* applyPromotions or applyDemotions returns (done, err) to reconcile, which
\* returns err when the bool is true and else goes on with the step that follows
ReturnToReconcile(returned, err, following) ==
    /\ done' = returned
    /\ IF returned
       THEN /\ pc' = "done"
            /\ result' = err
            /\ UNCHANGED <<todo, applied>>
       ELSE /\ pc' = following
            /\ result' = result
            /\ todo' = IF following = "demotions" THEN changes.Demotions ELSE <<>>
            /\ applied' = FALSE

\* one iteration of the loop of applyPromotions or applyDemotions: the ID is
\* skipped, or the adapter is called and the call is applied, or it fails and
\* the function returns the error
ApplyChange(call, callable, following) ==
    IF ~callable
    THEN /\ todo' = Tail(todo)
         /\ UNCHANGED <<calls, applied, done, pc, result>>
    ELSE \E ok \in BOOLEAN :
         /\ calls' = Append(calls, [call EXCEPT !.ok = ok])
         /\ IF ok
            THEN /\ todo' = Tail(todo)
                 /\ applied' = TRUE
                 /\ UNCHANGED <<done, pc, result>>
            ELSE ReturnToReconcile(AppliedAny(applied, TRUE), "error", following)

ApplyPromotion ==
    /\ pc = "promotions"
    /\ todo # <<>>
    /\ LET srv == state.Servers[Head(todo)]
           address == IF srv = NoServerState THEN NoId ELSE srv.Address
       IN  ApplyChange(CallAt("addVoter", Head(todo), address, TRUE),
                       Promotable(srv), "demotions")
    /\ UNCHANGED <<enabled, conf, state, changes, asked, pruneVars, healthVars>>

\* applyPromotions has walked the whole list
PromotionsReturn ==
    /\ pc = "promotions"
    /\ todo = <<>>
    /\ ReturnToReconcile(AppliedAny(applied, FALSE), "nil", "demotions")
    /\ UNCHANGED <<enabled, conf, calls, state, changes, asked, pruneVars, healthVars>>

ApplyDemotion ==
    /\ pc = "demotions"
    /\ todo # <<>>
    /\ ApplyChange(Call("demoteVoter", Head(todo), TRUE),
                   Demotable(state.Servers[Head(todo)]), "transfer")
    /\ UNCHANGED <<enabled, conf, state, changes, asked, pruneVars, healthVars>>

\* applyDemotions has walked the whole list
DemotionsReturn ==
    /\ pc = "demotions"
    /\ todo = <<>>
    /\ ReturnToReconcile(AppliedAny(applied, FALSE), "nil", "transfer")
    /\ UNCHANGED <<enabled, conf, calls, state, changes, asked, pruneVars, healthVars>>

\* reconcile without its check that the target is not the leader already
TransferWantedToLeader(leader, current) == leader # NoId

\* whether reconcile wants the leadership moved
TransferWanted(leader, current) == ~(leader = NoId \/ leader = current)

\* the end of reconcile: the leadership transfer, when one is wanted
LeadershipTransfer ==
    /\ pc = "transfer"
    /\ pc' = "done"
    /\ IF ~TransferWanted(changes.Leader, state.Leader)
       THEN result' = "nil" /\ calls' = calls
       ELSE IF state.Servers[changes.Leader] = NoServerState
       THEN result' = "error" /\ calls' = calls
       ELSE \E ok \in BOOLEAN :
            /\ calls' = Append(calls, CallAt("leadershipTransfer", changes.Leader,
                                    state.Servers[changes.Leader].Address, ok))
            /\ result' = IF ok THEN "nil" ELSE "error"
    /\ UNCHANGED <<enabled, conf, asked, reconcileVars, pruneVars, healthVars>>

\* ------------------------------------------------------------ health check
\* the unsigned integers of the code wrap at 2^IndexBits
Modulus == 2 ^ IndexBits

\* ServerState.isHealthy, on the fields of the receiver it reads
isHealthy(s, lastTerm, leaderLastIndex, c) ==
    IF leaderLastIndex = 0 \/ lastTerm = 0 THEN FALSE
    ELSE IF s.NodeStatus # NodeAlive THEN FALSE
    ELSE IF s.LastContact > c.LastContactThreshold \/ s.LastContact < 0 THEN FALSE
    ELSE IF s.LastTerm # lastTerm THEN FALSE
    ELSE IF (s.LastIndex + c.MaxTrailingLogs) % Modulus < leaderLastIndex THEN FALSE
    ELSE TRUE

\* the receivers and arguments of isHealthy: LastContact and the threshold are
\* signed durations, the indexes and the terms unsigned
HealthInputs ==
    [s : [NodeStatus : {NodeAlive, NodeFailed},
          LastContact : -1..MaxContact,
          LastTerm : 0..MaxTerm,
          LastIndex : 0..(Modulus - 1)],
     lastTerm : 0..MaxTerm,
     leaderLastIndex : 0..(Modulus - 1),
     conf : [LastContactThreshold : 0..MaxContact,
             MaxTrailingLogs : 0..(Modulus - 1)]]

\* one call of isHealthy
IsHealthy ==
    /\ pc = "isHealthy"
    /\ healthy' = isHealthy(healthInput.s, healthInput.lastTerm,
                            healthInput.leaderLastIndex, healthInput.conf)
    /\ pc' = "done"
    /\ UNCHANGED <<enabled, conf, calls, result, asked, healthInput,
                   timeInput, stabilization, stable, reconcileVars, pruneVars>>

\* ------------------------------------------------------- stability checks
\* a nil *ServerHealth
NilHealth == [nil |-> TRUE]

\* State.ServerStabilizationTime: since is time.Since(s.firstStateTime)
ServerStabilizationTime(since, c) ==
    IF since > c.ServerStabilizationTime THEN c.ServerStabilizationTime ELSE 0

\* ServerHealth.IsStable
IsStable(h, now, minStableDuration) ==
    IF h = NilHealth THEN FALSE
    ELSE IF ~h.Healthy THEN FALSE
    ELSE IF now - h.StableSince < minStableDuration THEN FALSE
    ELSE TRUE

\* the clock, the state, the config, the health record and the duration of
\* the two checks
TimeInputs ==
    [now : 0..MaxTime,
     firstStateTime : 0..MaxTime,
     conf : [ServerStabilizationTime : 0..MaxTime],
     h : {NilHealth} \cup [Healthy : BOOLEAN, StableSince : 0..MaxTime],
     minStableDuration : -1..MaxTime]

\* one call of State.ServerStabilizationTime
StabilizationTime ==
    /\ pc = "stabilization"
    /\ stabilization' = ServerStabilizationTime(
                            timeInput.now - timeInput.firstStateTime, timeInput.conf)
    /\ pc' = "isStable"
    /\ UNCHANGED <<enabled, conf, calls, result, asked, healthInput, healthy,
                   timeInput, stable, reconcileVars, pruneVars>>

\* one call of ServerHealth.IsStable
Stability ==
    /\ pc = "isStable"
    /\ stable' = IsStable(timeInput.h, timeInput.now, timeInput.minStableDuration)
    /\ pc' = "done"
    /\ UNCHANGED <<enabled, conf, calls, result, asked, healthInput, healthy,
                   timeInput, stabilization, reconcileVars, pruneVars>>

\* ------------------------------------------------------ initial conditions
EmptyServers == [b \in BucketNames |-> EmptyBucket]

\* what one server ID can be to the consensus layer and to the embedder
Profiles == (Suffrages \cup {Nil}) \X (Servers \cup {NoServer})

\* The categorizer reads of a suffrage only whether it is Voter, of a
\* NodeStatus only whether it is alive, and skips every server that is not in
\* the configuration.  SpecCategorize runs it on all of Profiles; the pruning
\* pass is explored with one profile of each kind.
PassProfiles ==
    {p \in Profiles :
        /\ p[1] # Staging
        /\ p[2] # NoServer => p[2].NodeStatus \in {NodeAlive, NodeFailed}
        /\ p[1] = Nil =>
            p[2] \in {NoServer, [NodeStatus |-> NodeAlive, NodeType |-> NodeVoter]}}

RECURSIVE SetToSeq(_)
SetToSeq(S) ==
    IF S = {} THEN <<>>
    ELSE LET x == CHOOSE y \in S : TRUE IN <<x>> \o SetToSeq(S \ {x})

\* the non-decreasing sequences of n indices from 1 to hi
RECURSIVE Monotone(_, _)
Monotone(n, hi) ==
    IF n = 0 THEN {<<>>}
    ELSE LET prev == Monotone(n - 1, hi)
         IN  {Append(q[1], q[2]) :
                q \in {r \in prev \X (1..hi) : n = 1 \/ r[1][n - 1] <= r[2]}}

\* the assignments of a profile of P to every ID, one for each class of
\* assignments that differ only by a renaming of the IDs
Assignments(seq) ==
    {[id \in Ids |-> seq[a[id]]] : a \in Monotone(NumServers, Len(seq))}

ProfileSeq == SetToSeq(Profiles)

PassProfileSeq == SetToSeq(PassProfiles)

\* the pass has not read anything yet
InitLocals ==
    /\ enabled = FALSE
    /\ conf = NilConfig
    /\ servers = EmptyServers
    /\ phase = "none"
    /\ pending = {}
    /\ failureTolerance = 0
    /\ startVoters = 0
    /\ ids = <<>>
    /\ toRemove = <<>>
    /\ calls = <<>>
    /\ result = "none"
    /\ changes = NoChanges
    /\ todo = <<>>
    /\ applied = FALSE
    /\ done = FALSE
    /\ asked = {}

\* no call of isHealthy is under way
NoHealthInput == [nil |-> TRUE]

\* no stability check is under way
NoTimeInput == [nil |-> TRUE]

InitNoStability ==
    /\ timeInput = NoTimeInput
    /\ stabilization = "none"
    /\ stable = "none"

InitNoHealth ==
    /\ healthInput = NoHealthInput
    /\ healthy = "none"
    /\ InitNoStability

InitPrune ==
    /\ \E a \in Assignments(PassProfileSeq) :
        /\ raftServers = [id \in Ids |-> a[id][1]]
        /\ knownServers = [id \in Ids |-> a[id][2]]
    /\ pc = "start"
    /\ state = NilState
    /\ InitLocals
    /\ InitNoHealth

\* categorizeServers on every configuration and every view of the embedder
InitCategorize ==
    /\ \E a \in Assignments(ProfileSeq) :
        /\ raftServers = [id \in Ids |-> a[id][1]]
        /\ knownServers = [id \in Ids |-> a[id][2]]
    /\ pc = "categorize"
    /\ state = NilState
    /\ InitLocals
    /\ InitNoHealth

\* the states a.GetState() may return: none, or the servers it tracks (one
\* assignment for each class of assignments that differ by a renaming of the
\* IDs) and a leader, which may be missing
ServerStateSeq == SetToSeq(ServerStates \cup {NoServerState})

States ==
    {NilState} \cup
    [Servers : {[id \in StateIds |-> WithAddress(ServerStateSeq[a[id]], id)] :
                    a \in Monotone(NumStateServers, Len(ServerStateSeq))},
     Leader : StateIds \cup {NoId}]

InitReconcile ==
    /\ raftServers = [id \in Ids |-> Nil]
    /\ knownServers = [id \in Ids |-> NoServer]
    /\ pc = "reconcile"
    /\ state \in States
    /\ InitLocals
    /\ InitNoHealth

\* isHealthy on every receiver and every argument
InitHealth ==
    /\ raftServers = [id \in Ids |-> Nil]
    /\ knownServers = [id \in Ids |-> NoServer]
    /\ pc = "isHealthy"
    /\ state = NilState
    /\ InitLocals
    /\ healthInput \in HealthInputs
    /\ healthy = "none"
    /\ InitNoStability

\* the two stability checks on every clock, receiver and argument
InitStability ==
    /\ raftServers = [id \in Ids |-> Nil]
    /\ knownServers = [id \in Ids |-> NoServer]
    /\ pc = "stabilization"
    /\ state = NilState
    /\ InitLocals
    /\ healthInput = NoHealthInput
    /\ healthy = "none"
    /\ timeInput \in TimeInputs
    /\ stabilization = "none"
    /\ stable = "none"

NextPrune ==
    \/ PruneBegin
    \/ CategorizeServers
    \/ FilterServers
    \/ RemoveStaleNonVoter
    \/ StaleNonVotersDone
    \/ AdjudicateStep
    \/ AdjudicateReturn
    \/ RemoveNext
    \/ RemoveDone

SpecPrune == InitPrune /\ [][NextPrune]_vars

SpecCategorize == InitCategorize /\ [][CategorizeServers]_vars

NextReconcile ==
    \/ ReconcileBegin
    \/ GetState
    \/ CalculatePromotionsAndDemotions
    \/ ApplyPromotion
    \/ PromotionsReturn
    \/ ApplyDemotion
    \/ DemotionsReturn
    \/ LeadershipTransfer

SpecReconcile == InitReconcile /\ [][NextReconcile]_vars

SpecHealth == InitHealth /\ [][IsHealthy]_vars

NextStability == StabilizationTime \/ Stability

SpecStability == InitStability /\ [][NextStability]_vars

\* a pass of either kind
InitPass == InitPrune \/ InitReconcile

NextPass == NextPrune \/ NextReconcile

SpecPass == InitPass /\ [][NextPass]_vars

\* ============================================================== properties
\* The vocabulary of the claims, read off the inputs of the pass.

\* the servers of the consensus configuration, and its voters
RaftMembers == {id \in Ids : raftServers[id] # Nil}

RaftVoters == {id \in Ids : raftServers[id] = Voter}

KnownIds == {id \in Ids : knownServers[id] # NoServer}

\* the class of a server of the configuration: stale when the embedder does
\* not know it, else healthy or failed by its NodeStatus; voter by its suffrage
ClassOf(id) ==
    LET half == IF raftServers[id] = Voter THEN "Voters" ELSE "NonVoters"
    IN  IF id \notin KnownIds THEN "Stale" \o half
        ELSE IF knownServers[id].NodeStatus = NodeAlive THEN "Healthy" \o half
        ELSE "Failed" \o half

BucketsOf(id) == {b \in BucketNames : id \in DOMAIN servers[b]}

\* the current voters among the IDs adjudicateRemoval has emitted so far
EmittedVoters == Cardinality({i \in DOMAIN ids : raftServers[ids[i]] = Voter})

Adjudicated == pc \in {"adjudicating", "removing"}

IsAscending(s) == \A i, j \in DOMAIN s : i < j => s[i] < s[j]

RemovalIds(class) ==
    {i \in DOMAIN calls : ClassOf(calls[i].id) = class}

\* the place of a class in the order of the removals
Precedence(class) ==
    CASE class = "StaleNonVoters" -> 1
      [] class = "StaleVoters" -> 2
      [] class = "FailedNonVoters" -> 3
      [] class = "FailedVoters" -> 4
      [] OTHER -> 5

\* ---- C2 (quorum safety of the adjudicator) --------------------------------
\* After removing the current voters an adjudication has emitted, the voter
\* count is still at least minQuorum, and nothing is emitted when the failure
\* tolerance of the count read at the start is 0.  The voter count is taken
\* both ways the sentence can be read (the potential-voter count the
\* adjudicator was given, the voters of the configuration), and a count that
\* was below minQuorum before the adjudication is not held against the code.
StillQuorate(count) ==
    count < conf.MinQuorum \/ count - EmittedVoters >= conf.MinQuorum

\* C2: after removing the current voters an adjudication has emitted, the
\* voter count is still at least minQuorum (under one of its two readings),
\* and nothing is emitted when the failure tolerance of the start count is 0.
C2_QuorumSafety ==
    Adjudicated =>
        /\ EmittedVoters >= 1 =>
            StillQuorate(startVoters) \/ StillQuorate(Cardinality(RaftVoters))
        /\ startVoters <= 2 => EmittedVoters = 0

\* ---- C3 (a stale voter is refused by the minQuorum gate) ------------------
\* Configuration of four voters, three of them known to the embedder (alive,
\* node type voter), minQuorum = 4
ScenarioC3 ==
    /\ pc \notin {"start", "done"}
    /\ conf.MinQuorum = 4
    /\ Cardinality(RaftMembers) = 4
    /\ RaftVoters = RaftMembers
    /\ Cardinality(KnownIds) = 3
    /\ KnownIds \subseteq RaftMembers
    /\ \A id \in KnownIds :
        knownServers[id] = [NodeStatus |-> NodeAlive, NodeType |-> NodeVoter]

\* C3: in that scenario the adjudication of the stale-voter bucket emits
\* nothing and no remove-server call is made.
C3_StaleVoterRefused ==
    ScenarioC3 =>
        /\ phase = "StaleVoters" /\ Adjudicated => ids = <<>>
        /\ \A i \in DOMAIN calls : calls[i].op # "removeServer"

\* ---- C4 (majority protection within one adjudication) ---------------------
\* three potential voters, all current voters, two of them failed and both
\* candidates of the adjudication, minQuorum = 1
ScenarioC4 ==
    /\ pc = "removing"
    /\ phase = "FailedVoters"
    /\ conf.MinQuorum = 1
    /\ startVoters = 3
    /\ LET potential == {id \in KnownIds \cap RaftMembers :
                            knownServers[id].NodeType = NodeVoter}
       IN  /\ Cardinality(potential) = 3
           /\ potential \subseteq RaftVoters
           /\ Cardinality({id \in potential : ClassOf(id) = "FailedVoters"}) = 2
           /\ {id \in potential : ClassOf(id) = "FailedVoters"}
                \subseteq Range(ids) \cup DOMAIN servers.FailedVoters

\* The current voters emitted by one adjudication never outnumber the failure
\* tolerance (n - 1) / 2 of the count n read at its start; in the scenario
\* exactly one server is emitted.
C4_EmittedWithinTolerance ==
    /\ (Adjudicated /\ EmittedVoters >= 1) => 2 * EmittedVoters + 1 <= startVoters
    /\ ScenarioC4 => Len(ids) = 1

\* Once the tolerance is below 1 the adjudication emits no further ID.
C4_RefusedAtZero ==
    (pc = "adjudicating" /\ failureTolerance < 1) => (ids' = ids /\ servers' = servers)

\* C4: within one adjudication the emitted current voters stay within the
\* failure tolerance of the start count, nothing is emitted once the tolerance
\* is below 1, and the scenario emits exactly one failed voter.
C4_MajorityProtection ==
    [](C4_EmittedWithinTolerance) /\ [][C4_RefusedAtZero]_vars

C4_Witness ==
    /\ ScenarioC4
    /\ Len(ids) = 1
    /\ failureTolerance = 0
    /\ DOMAIN servers.FailedVoters # {}

\* ---- C8 (categorization partitions the configuration) ---------------------
\* C8: after categorizeServers every ID of the configuration is in exactly the
\* bucket of its class, and an ID outside the configuration is in no bucket.
C8_CategorizationPartitions ==
    pc = "filter" =>
        \A id \in Ids :
            BucketsOf(id) = IF id \in RaftMembers THEN {ClassOf(id)} ELSE {}

C8_Witness ==
    /\ pc = "filter"
    /\ \E a, b, c, d \in Ids :
        /\ a \in KnownIds \ RaftMembers
        /\ BucketsOf(b) = {"StaleNonVoters"} /\ raftServers[b] = Staging
        /\ BucketsOf(c) = {"FailedVoters"} /\ knownServers[c].NodeStatus = NodeLeft
        /\ BucketsOf(d) = {"HealthyVoters"}

\* ---- C9 (deterministic enumeration) ---------------------------------------
\* C9: the candidates of a bucket are processed in ascending ServerID order: the
\* IDs an adjudication emits, and the remove-server calls for the stale
\* non-voters, are ascending.
C9_AscendingEnumeration ==
    /\ IsAscending(ids)
    /\ \A i, j \in RemovalIds("StaleNonVoters") : i < j => calls[i].id < calls[j].id

\* ---- C10 (pruning order) --------------------------------------------------
\* C10: the removals of a pass come class by class: stale non-voters, stale voters,
\* failed non-voters, failed voters; a stale server is removed through the
\* consensus adapter's remove-server and a failed one through the embedder's
\* RemoveFailedServer.
C10_PruningOrder ==
    /\ \A i, j \in DOMAIN calls :
        i < j => Precedence(ClassOf(calls[i].id)) <= Precedence(ClassOf(calls[j].id))
    /\ \A i \in DOMAIN calls :
        /\ ClassOf(calls[i].id) \in {"StaleNonVoters", "StaleVoters"}
            <=> calls[i].op = "removeServer"
        /\ ClassOf(calls[i].id) \in {"FailedNonVoters", "FailedVoters"}
            <=> calls[i].op = "RemoveFailedServer"

C10_Witness ==
    \E i, j \in DOMAIN calls :
        /\ i < j
        /\ calls[i].op = "removeServer" /\ ClassOf(calls[i].id) = "StaleVoters"
        /\ calls[j].op = "RemoveFailedServer" /\ ClassOf(calls[j].id) = "FailedVoters"

\* ---- the reconciler's vocabulary ------------------------------------------
CallsOf(op) == {i \in DOMAIN calls : calls[i].op = op}

AppliedCalls(op) == {i \in CallsOf(op) : calls[i].ok}

\* the record state.Servers holds for the server a call names
Target(i) == state.Servers[calls[i].id]

\* ---- C1 (one class per pass) ----------------------------------------------
\* C1: a reconcile pass calls the consensus adapter for at most one of add-voter,
\* demote-voter and leadership-transfer; an applied add-voter excludes every
\* demote-voter and leadership-transfer call, an applied demote-voter every
\* leadership-transfer call.
C1_OneClassPerPass ==
    /\ Cardinality({op \in {"addVoter", "demoteVoter", "leadershipTransfer"} :
                        CallsOf(op) # {}}) <= 1
    /\ AppliedCalls("addVoter") # {} =>
            CallsOf("demoteVoter") = {} /\ CallsOf("leadershipTransfer") = {}
    /\ AppliedCalls("demoteVoter") # {} => CallsOf("leadershipTransfer") = {}

\* a pass that applied a promotion while the change-set also held a demotion
\* the code would have applied and a leadership transfer it would have made
C1_Witness ==
    /\ pc = "done"
    /\ AppliedCalls("addVoter") # {}
    /\ \E id \in Range(changes.Demotions) :
        /\ state.Servers[id] # NoServerState
        /\ state.Servers[id].State = RaftVoter
    /\ changes.Leader \notin {NoId, state.Leader}
    /\ state.Servers[changes.Leader] # NoServerState

\* ---- C5 (promotion gate) --------------------------------------------------
\* C5: add-voter is never called for a server that state.Servers does not hold,
\* that is a voter or the leader, or whose Health.Healthy is false.
C5_PromotionGate ==
    \A i \in CallsOf("addVoter") :
        /\ Target(i) # NoServerState
        /\ Target(i).State \notin {RaftVoter, RaftLeader}
        /\ Target(i).Healthy

\* add-voter was called for one ID of the list and not for another one, which
\* is unhealthy, has voting rights or is unknown
C5_Witness ==
    /\ pc = "done"
    /\ CallsOf("addVoter") # {}
    /\ \E id \in Range(changes.Promotions) :
        /\ \A i \in CallsOf("addVoter") : calls[i].id # id
        /\ \/ state.Servers[id] = NoServerState
           \/ state.Servers[id].State = RaftLeader
           \/ ~state.Servers[id].Healthy

\* ---- C6 (demotion gate) ---------------------------------------------------
\* C6: demote-voter is never called for a server whose role is non-voter, nor for
\* an ID state.Servers does not hold.
C6_DemotionGate ==
    \A i \in CallsOf("demoteVoter") :
        /\ Target(i) # NoServerState
        /\ Target(i).State # RaftNonVoter

\* demote-voter was called for one ID of the list and not for another one,
\* which is a non-voter
C6_Witness ==
    /\ pc = "done"
    /\ CallsOf("demoteVoter") # {}
    /\ \E id \in Range(changes.Demotions) :
        /\ \A i \in CallsOf("demoteVoter") : calls[i].id # id
        /\ state.Servers[id] # NoServerState
        /\ state.Servers[id].State = RaftNonVoter

\* ---- C7 (applyDemotions ignores servers without voting rights) ------------
\* C7: demote-voter is called only for servers whose role is voter or leader.
C7_DemotesOnlyVoters ==
    \A i \in CallsOf("demoteVoter") :
        /\ Target(i) # NoServerState
        /\ Target(i).State \in {RaftVoter, RaftLeader}

\* ---- C11 (the policy filter can only narrow removals) ---------------------
DeadBuckets == {"StaleNonVoters", "StaleVoters", "FailedNonVoters", "FailedVoters"}

\* the filter step leaves each stale or failed bucket a part of what it was,
\* entry by entry, and the healthy buckets as they were
C11_FilterNarrows ==
    pc = "filter" =>
        /\ \A b \in DeadBuckets :
            /\ DOMAIN servers'[b] \subseteq DOMAIN servers[b]
            /\ \A id \in DOMAIN servers'[b] : servers'[b][id] = servers[b][id]
        /\ servers'.HealthyVoters = servers.HealthyVoters
        /\ servers'.HealthyNonVoters = servers.HealthyNonVoters

\* every server a removal call names is a stale or failed server of the
\* configuration
C11_RemovedWereDead ==
    \A i \in DOMAIN calls :
        /\ calls[i].id \in RaftMembers
        /\ ClassOf(calls[i].id) \in DeadBuckets

\* C11: after FilterFailedServerRemovals each stale or failed bucket is a subset
\* of what it was (an ID the policy adds or moves to another class is
\* dropped), the healthy buckets are unchanged, and every server removed in
\* the pass was categorized as stale or failed.
C11_PolicyOnlyNarrows ==
    [](C11_RemovedWereDead) /\ [][C11_FilterNarrows]_vars

\* the filter has dropped a stale voter and kept a failed voter, next to a
\* healthy voter
C11_Witness ==
    /\ pc = "removeStaleNonVoters"
    /\ LET c == categorizeServers(raftServers, knownServers)
       IN  /\ DOMAIN servers.StaleVoters # DOMAIN c.StaleVoters
           /\ servers.FailedVoters = c.FailedVoters
           /\ DOMAIN servers.FailedVoters # {}
           /\ servers.HealthyVoters = c.HealthyVoters
           /\ DOMAIN servers.HealthyVoters # {}

\* ---- C12 (abort on adapter failure) ---------------------------------------
\* a failed add-voter, demote-voter or remove-server call is the last call of
\* the pass, and the pass has returned an error
C12_FailedCallIsLast ==
    \A i \in DOMAIN calls :
        (calls[i].op \in {"addVoter", "demoteVoter", "removeServer"} /\ ~calls[i].ok)
            => (i = Len(calls) /\ pc = "done" /\ result = "error")

\* the calls made so far stay as they are: nothing is rolled back
C12_CallsKept ==
    /\ Len(calls') >= Len(calls)
    /\ SubSeq(calls', 1, Len(calls)) = calls

\* C12: when an add-voter, demote-voter or remove-server call returns an error
\* the pass returns an error and makes no further call to the consensus
\* adapter or the embedder; the calls applied before are not rolled back.
C12_AbortOnAdapterFailure ==
    [](C12_FailedCallIsLast) /\ [][C12_CallsKept]_vars

\* a pruning pass that removed one stale non-voter, failed on the second and
\* left a third one
C12_Witness ==
    /\ pc = "done"
    /\ result = "error"
    /\ Len(calls) = 2
    /\ calls[1].op = "removeServer" /\ calls[1].ok
    /\ calls[2].op = "removeServer" /\ ~calls[2].ok
    /\ phase = "StaleNonVoters"
    /\ pending # {}

\* ---- C13 (disabled is a silent no-op) -------------------------------------
\* what the guards of the pass that begins have read: reconciliation disabled,
\* no config, or, for the pruner, CleanupDeadServers false
GuardsClosed ==
    \/ ~enabled'
    \/ conf' = NilConfig
    \/ pc = "start" /\ ~conf'.CleanupDeadServers

\* a pass whose guards are closed returns nil at once, having called neither
\* the promoter nor the consensus adapter nor the embedder
C13_ReturnsAtOnce ==
    (pc \in {"start", "reconcile"} /\ GuardsClosed) =>
        /\ pc' = "done"
        /\ result' = "nil"
        /\ calls' = <<>>
        /\ asked' = {}
        /\ servers' = EmptyServers

\* C13: when reconciliation is disabled or the config is nil, reconcile and
\* pruneDeadServers return success without calling the promoter, the consensus
\* adapter or RemoveFailedServer, and so does pruneDeadServers when
\* CleanupDeadServers is false; a pass that has returned does nothing more.
C13_DisabledIsNoOp == [][C13_ReturnsAtOnce /\ pc # "done"]_vars

\* a pruning pass that returned at its guard on CleanupDeadServers although
\* the configuration holds a stale server
C13_Witness ==
    /\ pc = "done"
    /\ enabled
    /\ conf # NilConfig
    /\ ~conf.CleanupDeadServers
    /\ RaftMembers \ KnownIds # {}
    /\ result = "nil"
    /\ calls = <<>>
    /\ asked = {}

\* ---- C14 (reconcile without a leader fails as a no-op) --------------------
\* C14: when reconciliation is enabled and the config is present but the state
\* is absent or has no leader, reconcile returns an error, does not ask the
\* promoter for a change-set and calls the consensus adapter not once.
C14_NoLeaderFails ==
    (/\ pc = "done"
     /\ enabled
     /\ conf # NilConfig
     /\ (state = NilState \/ state.Leader = NoId))
        => (/\ result = "error"
            /\ calls = <<>>
            /\ asked = {}
            /\ changes = NoChanges)

\* such a pass over a state that has no leader and holds a healthy non-voter
C14_Witness ==
    /\ pc = "done"
    /\ enabled
    /\ conf # NilConfig
    /\ state # NilState
    /\ state.Leader = NoId
    /\ \E id \in StateIds : Promotable(state.Servers[id])
    /\ result = "error"

\* ---- C15 (leadership transfer conditions) ---------------------------------
\* a reconcile pass that got a change-set from the promoter and has returned
ReconcileOver == pc = "done" /\ "CalculatePromotionsAndDemotions" \in asked

\* the change-set names a new leader
LeaderWanted == changes.Leader # NoId /\ changes.Leader # state.Leader

LeaderKnown == state.Servers[changes.Leader] # NoServerState

\* a leadership-transfer call goes to the server the change-set names, at the
\* address state.Servers records for it, and there is one such call at most
TransferTargetsLeader ==
    /\ Cardinality(CallsOf("leadershipTransfer")) <= 1
    /\ \A i \in CallsOf("leadershipTransfer") :
        /\ calls[i].id = changes.Leader
        /\ calls[i].address = state.Servers[changes.Leader].Address

\* the claim as it is worded: the transfer is called exactly when no promotion
\* and no demotion was applied and the target is wanted and known, and an
\* unknown target makes the pass fail
C15_TransferIffNothingApplied ==
    ReconcileOver =>
        /\ CallsOf("leadershipTransfer") # {}
            <=> (/\ AppliedCalls("addVoter") = {}
                 /\ AppliedCalls("demoteVoter") = {}
                 /\ LeaderWanted
                 /\ LeaderKnown)
        /\ TransferTargetsLeader
        /\ (LeaderWanted /\ ~LeaderKnown) =>
                (result = "error" /\ CallsOf("leadershipTransfer") = {})

\* C15: reconcile calls leadership-transfer exactly when no add-voter and no
\* demote-voter call was made in the pass (applied or failed), changes.Leader
\* is non-empty, differs from state.Leader and is a key of state.Servers; the
\* call names that server's ID and recorded address; when no such call was
\* made and the wanted leader is not in state.Servers the pass returns an
\* error without a leadership-transfer call.
C15_TransferIffNothingCalled ==
    ReconcileOver =>
        LET quiet == CallsOf("addVoter") = {} /\ CallsOf("demoteVoter") = {}
        IN  /\ CallsOf("leadershipTransfer") # {}
                <=> (quiet /\ LeaderWanted /\ LeaderKnown)
            /\ TransferTargetsLeader
            /\ (quiet /\ LeaderWanted /\ ~LeaderKnown) =>
                    (result = "error" /\ CallsOf("leadershipTransfer") = {})
            /\ (LeaderWanted /\ ~LeaderKnown) => CallsOf("leadershipTransfer") = {}

\* a transfer made after a change-set whose promotions and demotions were all
\* skipped
C15_Witness ==
    /\ ReconcileOver
    /\ CallsOf("leadershipTransfer") # {}
    /\ changes.Promotions # <<>>
    /\ changes.Demotions # <<>>
    /\ calls[1].address # calls[1].id

\* ---- C16 (the bool applyPromotions and applyDemotions return) -------------
\* the call the function that is running makes
RunningOp == IF pc = "promotions" THEN "addVoter" ELSE "demoteVoter"

\* the step by which applyPromotions or applyDemotions returns
ApplyReturns == pc \in {"promotions", "demotions"} /\ pc' # pc

CalledIn(cs, op) == \E i \in DOMAIN cs : cs[i].op = op

AppliedIn(cs, op) == \E i \in DOMAIN cs : cs[i].op = op /\ cs[i].ok

\* the claim as it is worded: the bool returned is true exactly when one call
\* at least completed without error
C16_TrueIffApplied ==
    [][ApplyReturns => (done' <=> AppliedIn(calls', RunningOp))]_vars

\* C16: applyPromotions returns true exactly when it made an add-voter call,
\* one that completed or the one that failed, and applyDemotions likewise for
\* demote-voter: true with an adapter error even when nothing was applied.
C16_TrueIffCalled ==
    [][ApplyReturns => (done' <=> CalledIn(calls', RunningOp))]_vars

\* applyPromotions has returned true with the error of its first call
C16_Witness ==
    /\ pc = "done"
    /\ done
    /\ result = "error"
    /\ Len(calls) = 1
    /\ calls[1].op = "addVoter"
    /\ ~calls[1].ok

\* ---- C17 (health predicate with a saturating lag check) -------------------
\* the sum of two unsigned integers that stops at the largest one
Saturating(a, b) == IF a + b > Modulus - 1 THEN Modulus - 1 ELSE a + b

\* C17: isHealthy returns true exactly when leaderLastIndex and the leader's
\* term are non-zero, the node is alive, 0 <= LastContact <= the threshold,
\* the terms agree, and LastIndex + MaxTrailingLogs, saturating at the largest
\* unsigned value, is at least leaderLastIndex.
C17_SaturatingHealth ==
    pc = "done" =>
        LET h == healthInput
        IN  healthy =
                (/\ h.leaderLastIndex # 0
                 /\ h.lastTerm # 0
                 /\ h.s.NodeStatus = NodeAlive
                 /\ 0 <= h.s.LastContact
                 /\ h.s.LastContact <= h.conf.LastContactThreshold
                 /\ h.s.LastTerm = h.lastTerm
                 /\ Saturating(h.s.LastIndex, h.conf.MaxTrailingLogs) >= h.leaderLastIndex)

\* ---- C18 (the potential-voter count within one adjudication) --------------
\* the potential voters among the IDs the adjudication has emitted so far
EmittedPotential ==
    Cardinality({i \in DOMAIN ids :
                    /\ ids[i] \in KnownIds
                    /\ knownServers[ids[i]].NodeType = NodeVoter})

\* the loop may evaluate the count provider for its next candidate: the
\* tolerance is not used up and a potential voter is still to be visited
CountEvaluated ==
    /\ pc = "adjudicating"
    /\ failureTolerance >= 1
    /\ \E id \in pending : IsPotentialVoter(servers[phase][id])

\* the claim as it is worded: whenever the loop evaluates the count provider
\* it returns the value read at the start of the call
C18_CountConstant ==
    CountEvaluated => PotentialVoters(servers) = startVoters

\* C18: within one adjudicateRemoval call the count provider returns the value
\* read at the start less the potential voters the call has emitted so far:
\* constant for the stale voters, one less with every potential voter emitted
\* from the failed non-voters or the failed voters.
C18_CountFollowsEmitted ==
    pc = "adjudicating" =>
        /\ PotentialVoters(servers) = startVoters - EmittedPotential
        /\ phase = "StaleVoters" => PotentialVoters(servers) = startVoters

\* the adjudication of the failed non-voters has emitted a potential voter
\* and judges the next one against the lower count
C18_Witness ==
    /\ CountEvaluated
    /\ phase = "FailedNonVoters"
    /\ EmittedPotential = 1
    /\ PotentialVoters(servers) = startVoters - 1

\* ---- C19 (stale non-voters bypass adjudication) ---------------------------
RemoveServerCalled(id) ==
    \E i \in DOMAIN calls : calls[i].op = "removeServer" /\ calls[i].id = id

\* C19: once the filter has run, every stale non-voter it left has received a
\* remove-server call, or is still to be visited by the loop, or was not
\* reached because a remove-server call failed; the failure tolerance, the
\* potential-voter count and minQuorum play no part.
C19_StaleNonVotersRemoved ==
    phase # "none" =>
        \A id \in DOMAIN servers.StaleNonVoters :
            \/ RemoveServerCalled(id)
            \/ /\ phase = "StaleNonVoters"
               /\ id \in pending
               /\ (pc = "removeStaleNonVoters" \/ result = "error")

\* two stale non-voters were removed although the failure tolerance is 0 and
\* minQuorum is above the potential-voter count
C19_Witness ==
    /\ pc = "adjudicating"
    /\ phase = "StaleVoters"
    /\ failureTolerance = 0
    /\ startVoters < conf.MinQuorum
    /\ Cardinality(DOMAIN servers.StaleNonVoters) = 2
    /\ \A id \in DOMAIN servers.StaleNonVoters : RemoveServerCalled(id)

\* ---- C20 (the potential-voter flag after categorization) ------------------
\* C20: after categorizeServers every entry of the four non-stale buckets has
\* potentialVoter = (the embedder's NodeType of the server is voter), every
\* entry of the two stale buckets has potentialVoter = false, and
\* PotentialVoters() counts the known servers of the configuration whose
\* NodeType is voter, so never a stale one.
C20_PotentialVoterFlag ==
    pc = "filter" =>
        /\ \A b \in BucketNames \ {"StaleNonVoters", "StaleVoters"} :
            \A id \in DOMAIN servers[b] :
                IsPotentialVoter(servers[b][id]) = (knownServers[id].NodeType = NodeVoter)
        /\ \A b \in {"StaleNonVoters", "StaleVoters"} :
            \A id \in DOMAIN servers[b] : ~IsPotentialVoter(servers[b][id])
        /\ PotentialVoters(servers) =
                Cardinality({id \in RaftMembers \cap KnownIds :
                                knownServers[id].NodeType = NodeVoter})

\* a stale voter, a healthy voter the embedder does not type as a voter and a
\* failed non-voter it does
C20_Witness ==
    /\ pc = "filter"
    /\ DOMAIN servers.StaleVoters # {}
    /\ \E id \in DOMAIN servers.HealthyVoters : ~IsPotentialVoter(servers.HealthyVoters[id])
    /\ \E id \in DOMAIN servers.FailedNonVoters : IsPotentialVoter(servers.FailedNonVoters[id])
    /\ PotentialVoters(servers) = 1

\* ---- C21 (startup grace period) -------------------------------------------
\* C21: ServerStabilizationTime returns 0 while the time elapsed since
\* firstStateTime is less than the configured stabilization time and the
\* configured time once the elapsed time is at least that, the equal case
\* included; IsStable is true exactly when the record is healthy and
\* now - StableSince is at least the duration asked for.
C21_GracePeriod ==
    LET t == timeInput
        elapsed == t.now - t.firstStateTime
    IN  /\ pc \in {"isStable", "done"} =>
            stabilization = IF elapsed < t.conf.ServerStabilizationTime
                            THEN 0
                            ELSE t.conf.ServerStabilizationTime
        /\ pc = "done" =>
            stable = (/\ t.h # NilHealth
                      /\ t.h.Healthy
                      /\ t.now - t.h.StableSince >= t.minStableDuration)

\* ---- C22 (majority protection across one pass) ----------------------------
\* the current voters the pass has removed, through remove-server or through
\* RemoveFailedServer
RemovedVoters ==
    {calls[i].id : i \in {j \in DOMAIN calls : calls[j].ok /\ calls[j].id \in RaftVoters}}

\* the potential-voter count at the start of the pass, as categorizeServers
\* gives it
PassStartVoters == PotentialVoters(categorizeServers(raftServers, knownServers))

\* C22: over one whole pruneDeadServers pass the current voters removed never
\* outnumber the failure tolerance of the potential-voter count the pass
\* started with.
C22_PassWideTolerance ==
    pc \notin {"start", "categorize"} =>
        Cardinality(RemovedVoters) <= getFailureTolerance(PassStartVoters)

\* ---- C23 (the minQuorum floor on the potential voters) --------------------
\* an adjudication of a failed bucket that has emitted a potential voter
\* leaves the count at minQuorum or above
C23_FloorAfterEmission ==
    (/\ Adjudicated
     /\ phase \in {"FailedNonVoters", "FailedVoters"}
     /\ EmittedPotential >= 1)
        => PotentialVoters(servers) >= conf.MinQuorum

\* no step of the removals takes the count from minQuorum or above to below
C23_FloorKept ==
    (/\ pc \in {"removeStaleNonVoters", "adjudicating", "removing"}
     /\ PotentialVoters(servers) >= conf.MinQuorum)
        => PotentialVoters(servers') >= conf.MinQuorum

\* C23: after an adjudicateRemoval call on the failed non-voters or the failed
\* voters that emitted a server whose potentialVoter flag is true,
\* PotentialVoters() is still at least minQuorum, and no accepted removal of a
\* pass takes the count from at or above minQuorum to below it.
C23_MinQuorumFloor ==
    [](C23_FloorAfterEmission) /\ [][C23_FloorKept]_vars

\* the adjudication of the failed non-voters emitted one potential voter and
\* refused the next, which would have taken the count below minQuorum
C23_Witness ==
    /\ pc = "removing"
    /\ phase = "FailedNonVoters"
    /\ EmittedPotential = 1
    /\ failureTolerance >= 1
    /\ conf.MinQuorum >= 1
    /\ PotentialVoters(servers) = conf.MinQuorum
    /\ \E id \in DOMAIN servers.FailedNonVoters :
            IsPotentialVoter(servers.FailedNonVoters[id])

====
